---- MODULE Spec2Model ----
(***************************************************************************)
(* CHIP-8 interpreter core of chippy-web: the Chip8 class (memory,         *)
(* registers, call stack, timers, keypad latch, opcode dispatcher), the    *)
(* Display pixel array it toggles, and the earlier Chip8 variant of        *)
(* src/lib/emulator.ts whose loadROM does not reset.                       *)
(*                                                                         *)
(* JavaScript values are modelled as follows.  A Uint8Array / Uint16Array  *)
(* is a function over its index range; a store outside the range is        *)
(* dropped and a load outside the range yields undefined, which every use  *)
(* in the code coerces to 0 except `this.pc = this.stack[this.sp]`, where  *)
(* it makes pc undefined and then NaN.  NaN below stands for both.         *)
(* The 4096-byte memory is held as the finite map of its non-zero bytes:   *)
(* an address of [0, MEM_SIZE) outside the map's domain holds 0.           *)
(***************************************************************************)
EXTENDS Integers, Sequences, FiniteSets, TLC

\* ------------------------------------------------------------------------
\* Program constants
\* ------------------------------------------------------------------------
INSTRUCTION_SIZE == 2
UINT8_MAX == 255
FONT_CHAR_WIDTH == 5
MEM_SIZE == 4096
MAX_ROM_SIZE == 3232
START_ADDR == 512
STACK_SIZE == 16
vWidth == 64
vHeight == 32

FONT_DATA ==
  << 240, 144, 144, 144, 240,
      32,  96,  32,  32, 112,
     240,  16, 240, 128, 240,
     240,  16, 240,  16, 240,
     144, 144, 240,  16,  16,
     240, 128, 240,  16, 240,
     240, 128, 240, 144, 240,
     240,  16,  32,  64,  64,
     240, 144, 240, 144, 240,
     240, 144, 240,  16, 240,
     240, 144, 240, 144, 144,
     224, 144, 224, 144, 224,
     240, 128, 128, 128, 240,
     224, 144, 144, 144, 224,
     240, 128, 240, 128, 240,
     240, 128, 240, 128, 128 >>

\* Physical key codes, in the order of inputMap; the last one is a code the
\* map does not contain.
KeyCodes ==
  << "Digit1", "Digit2", "Digit3", "Digit4",
     "KeyQ", "KeyW", "KeyE", "KeyR",
     "KeyA", "KeyS", "KeyD", "KeyF",
     "KeyZ", "KeyX", "KeyC", "KeyV", "Space" >>

\* inputMap.get(code): the logical key, or NaN for undefined.
NaN == 0 - 1
Null == 0 - 2

inputMap(code) ==
  CASE code = "Digit1" -> 1  [] code = "Digit2" -> 2  [] code = "Digit3" -> 3
    [] code = "Digit4" -> 12 [] code = "KeyQ" -> 4    [] code = "KeyW" -> 5
    [] code = "KeyE" -> 6    [] code = "KeyR" -> 13   [] code = "KeyA" -> 7
    [] code = "KeyS" -> 8    [] code = "KeyD" -> 9    [] code = "KeyF" -> 14
    [] code = "KeyZ" -> 10   [] code = "KeyX" -> 0    [] code = "KeyC" -> 11
    [] code = "KeyV" -> 15   [] OTHER -> NaN

\* ------------------------------------------------------------------------
\* JavaScript number and typed-array semantics
\* ------------------------------------------------------------------------
ToUint8(x) == IF x = NaN THEN 0 ELSE x % 256
ToUint16(x) == IF x = NaN THEN 0 ELSE x % 65536

\* this.memory[idx] read where undefined is coerced to 0 by the use.
Load(mem, idx) == IF idx \in DOMAIN mem THEN mem[idx] ELSE 0
\* this.memory[idx] = val
StoreMem(mem, idx, val) ==
  IF idx < 0 \/ idx >= MEM_SIZE THEN mem
  ELSE IF ToUint8(val) = 0
       THEN [a \in DOMAIN mem \ {idx} |-> mem[a]]
       ELSE IF idx \in DOMAIN mem
            THEN [mem EXCEPT ![idx] = ToUint8(val)]
            ELSE [a \in DOMAIN mem \cup {idx} |->
                    IF a = idx THEN ToUint8(val) ELSE mem[a]]
\* for (k = 0; k < n; k++) this.memory[start + k] = bytes[k]
StoreRange(mem, start, n, bytes) ==
  LET written == start..(start + n - 1)
      val(a) == IF a \in written THEN ToUint8(bytes[a - start + 1]) ELSE Load(mem, a)
  IN [a \in {b \in (DOMAIN mem \cup written) \cap (0..(MEM_SIZE - 1)) : val(b) # 0}
        |-> val(a)]
\* arr[idx] = val on a Uint8Array.
Store8(arr, idx, val) ==
  IF idx \in DOMAIN arr THEN [arr EXCEPT ![idx] = ToUint8(val)] ELSE arr
\* arr[idx] = val on a Uint16Array.
Store16(arr, idx, val) ==
  IF idx \in DOMAIN arr THEN [arr EXCEPT ![idx] = ToUint16(val)] ELSE arr

RECURSIVE BitAnd(_, _)
BitAnd(a, b) ==
  IF a = 0 \/ b = 0 THEN 0
  ELSE (a % 2) * (b % 2) + 2 * BitAnd(a \div 2, b \div 2)

RECURSIVE BitOr(_, _)
BitOr(a, b) ==
  IF a = 0 THEN b
  ELSE IF b = 0 THEN a
  ELSE (IF a % 2 = 1 \/ b % 2 = 1 THEN 1 ELSE 0) + 2 * BitOr(a \div 2, b \div 2)

RECURSIVE BitXor(_, _)
BitXor(a, b) ==
  IF a = 0 THEN b
  ELSE IF b = 0 THEN a
  ELSE ((a + b) % 2) + 2 * BitXor(a \div 2, b \div 2)

\* ------------------------------------------------------------------------
\* State: the fields of Chip8 and the on/off state of the Display's VPixels.
\* ------------------------------------------------------------------------
VARIABLES
  pc, i, v, stack, sp, delayTimer, soundTimer, memory,
  awaitingKey, keypadRegister, pressedKeys, isBuzzing,
  buzzer,       \* Null, or 1 for the OscillatorNode the field refers to
  oscillators,  \* number of OscillatorNodes started and not yet stopped
  vPixels,      \* indices (y * vWidth + x) of the VPixels that are on
  threw,        \* the last call ended in an uncaught TypeError
  romFile,      \* page: id of the selected ROM file, or Null
  pending,      \* page: loadROM() calls awaiting their file's bytes
  intervals,    \* page: number of step() intervals set by runEmu()
  fired,        \* page: interval callbacks run since the last reset or load
  lastOp,       \* history: the last call made and its argument
  shadow        \* history: return addresses of the calls not yet returned

mvars == << pc, i, v, stack, sp, delayTimer, soundTimer, memory,
            awaitingKey, keypadRegister, pressedKeys, isBuzzing, buzzer,
            oscillators, vPixels >>
vars == << pc, i, v, stack, sp, delayTimer, soundTimer, memory,
           awaitingKey, keypadRegister, pressedKeys, isBuzzing, buzzer,
           oscillators, vPixels, threw, lastOp, shadow,
           romFile, pending, intervals, fired >>
page == << romFile, pending, intervals, fired >>

\* The machine as one value, so that methods are operators on it.
Machine ==
  [ pc |-> pc, i |-> i, v |-> v, stack |-> stack, sp |-> sp,
    delayTimer |-> delayTimer, soundTimer |-> soundTimer, memory |-> memory,
    awaitingKey |-> awaitingKey, keypadRegister |-> keypadRegister,
    pressedKeys |-> pressedKeys, isBuzzing |-> isBuzzing,
    buzzer |-> buzzer, oscillators |-> oscillators,
    vPixels |-> vPixels, threw |-> FALSE ]

Becomes(m) ==
  /\ pc' = m.pc /\ i' = m.i /\ v' = m.v /\ stack' = m.stack /\ sp' = m.sp
  /\ delayTimer' = m.delayTimer /\ soundTimer' = m.soundTimer
  /\ memory' = m.memory /\ awaitingKey' = m.awaitingKey
  /\ keypadRegister' = m.keypadRegister /\ pressedKeys' = m.pressedKeys
  /\ isBuzzing' = m.isBuzzing /\ buzzer' = m.buzzer
  /\ oscillators' = m.oscillators
  /\ vPixels' = m.vPixels /\ threw' = m.threw

\* ------------------------------------------------------------------------
\* Construction, reset, ROM loading
\* ------------------------------------------------------------------------
\* new Uint8Array(MEM_SIZE)
ZeroMemory == [a \in {} |-> 0]

loadFontData(mem) == StoreRange(mem, 0, Len(FONT_DATA), FONT_DATA)

\* createOscillator() and start() add a sounding node; the field then
\* refers to it and any node it referred to before keeps sounding.
startBuzzer(m) ==
  [m EXCEPT !.buzzer = 1, !.oscillators = @ + 1, !.isBuzzing = TRUE]
\* stopBuzzer() without `this.buzzer?.stop()`.
stopBuzzer_keepsNode(m) ==
  [m EXCEPT !.buzzer = Null, !.isBuzzing = FALSE]

\* `this.buzzer?.stop()` stops the node the field refers to, if any.
stopBuzzer(m) ==
  [m EXCEPT !.oscillators = IF m.buzzer # Null THEN @ - 1 ELSE @,
            !.buzzer = Null,
            !.isBuzzing = FALSE]

displayClear(m) == [m EXCEPT !.vPixels = {}]

\* reset() without `this.awaitingKey = false; this.keypadRegister = null`.
reset_keepsLatch(m) ==
  LET m1 == [m EXCEPT !.delayTimer = 0, !.soundTimer = 0,
                      !.v = [r \in 0..15 |-> 0],
                      !.stack = [s \in 0..(STACK_SIZE - 1) |-> 0],
                      !.sp = STACK_SIZE - 1,
                      !.memory = loadFontData(ZeroMemory),
                      !.pc = START_ADDR,
                      !.i = 0,
                      !.pressedKeys = {}]
      m2 == IF m1.isBuzzing THEN stopBuzzer(m1) ELSE m1
  IN displayClear(m2)

reset(m) ==
  LET m1 == [m EXCEPT !.delayTimer = 0, !.soundTimer = 0,
                      !.v = [r \in 0..15 |-> 0],
                      !.stack = [s \in 0..(STACK_SIZE - 1) |-> 0],
                      !.sp = STACK_SIZE - 1,
                      !.memory = loadFontData(ZeroMemory),
                      !.pc = START_ADDR,
                      !.i = 0,
                      !.awaitingKey = FALSE,
                      !.keypadRegister = Null,
                      !.pressedKeys = {}]
      m2 == IF m1.isBuzzing THEN stopBuzzer(m1) ELSE m1
  IN displayClear(m2)

\* loadROM() copying the whole buffer, without the MAX_ROM_SIZE cap.
loadROM_noTruncate(m, rom) ==
  [reset(m) EXCEPT !.memory = StoreRange(@, START_ADDR, Len(rom), rom)]

\* rom is a sequence: rom[k + 1] is the code's rom[k].
loadROM(m, rom) ==
  LET m1 == reset(m)
      readSize == IF Len(rom) <= MAX_ROM_SIZE THEN Len(rom) ELSE MAX_ROM_SIZE
  IN [m1 EXCEPT !.memory = StoreRange(@, START_ADDR, readSize, rom)]

\* ------------------------------------------------------------------------
\* Keypad and timers
\* ------------------------------------------------------------------------
handleKeyDown(m, code) ==
  LET keypad == inputMap(code) IN
  IF keypad = NaN THEN m
  ELSE LET m1 == [m EXCEPT !.pressedKeys = @ \cup {keypad}] IN
       \* `this.awaitingKey && this.keypadRegister`: register 0 is falsy
       IF m1.awaitingKey /\ m1.keypadRegister # Null /\ m1.keypadRegister # 0
       THEN [m1 EXCEPT !.v = Store8(@, m1.keypadRegister, keypad),
                       !.awaitingKey = FALSE,
                       !.keypadRegister = Null]
       ELSE m1

handleKeyUp(m, code) ==
  LET keypad == inputMap(code) IN
  \* `!keypad`: undefined and logical key 0 both return early
  IF keypad = NaN \/ keypad = 0 THEN m
  ELSE [m EXCEPT !.pressedKeys = @ \ {keypad}]

\* decrementTimers() without the `delayTimer > 0` test.
decrementTimers_noFloor(m) ==
  LET m1 == [m EXCEPT !.delayTimer = @ - 1] IN
  IF m1.soundTimer > 0 THEN [m1 EXCEPT !.soundTimer = @ - 1]
  ELSE IF m1.isBuzzing THEN stopBuzzer(m1) ELSE m1

decrementTimers(m) ==
  LET m1 == IF m.delayTimer > 0 THEN [m EXCEPT !.delayTimer = @ - 1] ELSE m IN
  IF m1.soundTimer > 0 THEN [m1 EXCEPT !.soundTimer = @ - 1]
  ELSE IF m1.isBuzzing THEN stopBuzzer(m1) ELSE m1

\* ------------------------------------------------------------------------
\* Fetch and decode
\* ------------------------------------------------------------------------
\* readWord() without the wrap of the advanced PC.
readWord_noWrap(m) ==
  LET byte0 == IF m.pc = NaN THEN 0 ELSE Load(m.memory, m.pc)
      byte1 == IF m.pc = NaN THEN 0 ELSE Load(m.memory, m.pc + 1)
      pc1 == IF m.pc = NaN THEN NaN ELSE m.pc + INSTRUCTION_SIZE
  IN [word |-> byte0 * 256 + byte1, m |-> [m EXCEPT !.pc = pc1]]

\* readWord(): the opcode read at m.pc and the machine with pc advanced.
readWord(m) ==
  LET byte0 == IF m.pc = NaN THEN 0 ELSE Load(m.memory, m.pc)
      byte1 == IF m.pc = NaN THEN 0 ELSE Load(m.memory, m.pc + 1)
      pc1 == IF m.pc = NaN THEN NaN ELSE m.pc + INSTRUCTION_SIZE
      pc2 == IF pc1 # NaN /\ pc1 >= 4096 THEN START_ADDR ELSE pc1
  IN [word |-> byte0 * 256 + byte1, m |-> [m EXCEPT !.pc = pc2]]

\* splitArgs(args, ArgLayout.XNN) and splitArgs(args, ArgLayout.XYZ)
splitArgsXNN(args) == << (args \div 256) % 16, args % 256 >>
splitArgsXYZ(args) == << (args \div 256) % 16, (args \div 16) % 16, args % 16 >>

\* ------------------------------------------------------------------------
\* Instructions
\* ------------------------------------------------------------------------
\* callSubroutine() moving the stack pointer before the push.
callSubroutine_decFirst(m, args) ==
  [m EXCEPT !.stack = Store16(@, m.sp - 1, m.pc),
            !.sp = m.sp - 1,
            !.pc = args]

callSubroutine(m, args) ==
  [m EXCEPT !.stack = Store16(@, m.sp, m.pc),
            !.sp = m.sp - 1,
            !.pc = args]

returnFromSubroutine(m) ==
  LET sp1 == m.sp + 1 IN
  [m EXCEPT !.sp = sp1,
            !.pc = IF sp1 \in DOMAIN m.stack THEN m.stack[sp1] ELSE NaN]

setRegister_adds(m, args) ==
  LET a == splitArgsXNN(args) IN
  [m EXCEPT !.v = Store8(@, a[1], m.v[a[1]] + a[2])]

setRegister(m, args) ==
  LET a == splitArgsXNN(args) IN [m EXCEPT !.v = Store8(@, a[1], a[2])]

\* addToRegister() that also reports the carry in VF.
addToRegister_carry(m, args) ==
  LET a == splitArgsXNN(args)
      sum == m.v[a[1]] + a[2]
  IN [m EXCEPT !.v = Store8(Store8(@, a[1], sum), 15,
                            IF sum > UINT8_MAX THEN 1 ELSE 0)]

addToRegister(m, args) ==
  LET a == splitArgsXNN(args) IN
  [m EXCEPT !.v = Store8(@, a[1], m.v[a[1]] + a[2])]

\* `v[x] -= ...; if (v[x] < 0) {VF = 0; v[x] = 255 + v[x]} else {VF = 1}`,
\* where v[x] is read back from the Uint8Array.
borrowAndFlag(v1, idxX) ==
  IF v1[idxX] < 0
  THEN Store8(Store8(v1, 15, 0), idxX, UINT8_MAX + Store8(v1, 15, 0)[idxX])
  ELSE Store8(v1, 15, 1)

bitAndMathOps(m, args) ==
  LET a == splitArgsXYZ(args)
      idxX == a[1]
      idxY == a[2]
      z == a[3]
      vx == m.v[idxX]
      vy == m.v[idxY]
  IN CASE z = 0 -> [m EXCEPT !.v = Store8(@, idxX, vy)]
       [] z = 1 -> [m EXCEPT !.v = Store8(@, idxX, BitOr(vx, vy))]
       [] z = 2 -> [m EXCEPT !.v = Store8(@, idxX, BitAnd(vx, vy))]
       [] z = 3 -> [m EXCEPT !.v = Store8(@, idxX, BitXor(vx, vy))]
       [] z = 4 ->
            LET v1 == Store8(m.v, idxX, vx + vy) IN
            \* `this.v[idxX] - UINT8_MAX;` is an expression statement
            IF v1[idxX] > UINT8_MAX
            THEN [m EXCEPT !.v = Store8(v1, 15, 1)]
            ELSE [m EXCEPT !.v = v1]
       [] z = 5 ->
            [m EXCEPT !.v = borrowAndFlag(Store8(m.v, idxX, vx - vy), idxX)]
       [] z = 6 ->
            LET v1 == Store8(m.v, 15, vx % 2) IN
            [m EXCEPT !.v = Store8(v1, idxX, v1[idxX] \div 2)]
       [] z = 7 ->
            [m EXCEPT !.v = borrowAndFlag(Store8(m.v, idxX, vy - vx), idxX)]
       [] z = 14 ->
            LET v1 == Store8(m.v, 15, BitAnd(vx, 128)) IN
            [m EXCEPT !.v = Store8(v1, idxX, v1[idxX] * 2)]
       [] OTHER -> m

skip(m) == [m EXCEPT !.pc = IF @ = NaN THEN NaN ELSE @ + INSTRUCTION_SIZE]

skipIfVXeqNN(m, args) ==
  LET a == splitArgsXNN(args) IN IF m.v[a[1]] = a[2] THEN skip(m) ELSE m

skipIfVXneqNN(m, args) ==
  LET a == splitArgsXNN(args) IN IF m.v[a[1]] # a[2] THEN skip(m) ELSE m

skipIfVXeqVY(m, args) ==
  LET a == splitArgsXYZ(args) IN IF m.v[a[1]] = m.v[a[2]] THEN skip(m) ELSE m

skipIfVXneqVY(m, args) ==
  LET a == splitArgsXYZ(args) IN IF m.v[a[1]] # m.v[a[2]] THEN skip(m) ELSE m

\* Math.random() is in [0, 1): the truncated product with 255 is in 0..254.
RandomDraws == 0..254

randByte(m, args, rand) ==
  LET a == splitArgsXNN(args) IN
  [m EXCEPT !.v = Store8(@, a[1], BitAnd(rand, a[2]))]

\* Display.toggleVPixel(x, y) on the set of lit pixels: a missing VPixel
\* makes `vPixel.on` throw a TypeError.
toggleVPixel(pixels, x, y) ==
  LET index == (y * vWidth) + x IN
  IF index < 0 \/ index >= vWidth * vHeight
  THEN [pixels |-> pixels, didUnset |-> FALSE, threw |-> TRUE]
  ELSE IF index \in pixels
       THEN [pixels |-> pixels \ {index}, didUnset |-> TRUE, threw |-> FALSE]
       ELSE [pixels |-> pixels \cup {index}, didUnset |-> FALSE, threw |-> FALSE]

\* The two nested loops of drawSprite, k = row * 8 + col.
RECURSIVE drawLoop(_, _, _, _, _)
drawLoop(m, x, y, height, k) ==
  IF k >= height * 8 THEN m
  ELSE LET row == k \div 8
           col == k % 8
           spriteLine == Load(m.memory, m.i + row)
           bit == (spriteLine \div (2 ^ (7 - col))) % 2
       IN IF bit = 1
          THEN LET t == toggleVPixel(m.vPixels, x + col, y + row) IN
               IF t.threw THEN [m EXCEPT !.threw = TRUE]
               ELSE drawLoop([m EXCEPT !.vPixels = t.pixels,
                                       !.v = IF t.didUnset THEN Store8(@, 15, 1) ELSE @],
                             x, y, height, k + 1)
          ELSE drawLoop(m, x, y, height, k + 1)

drawSprite(m, args) ==
  LET a == splitArgsXYZ(args)
      x == m.v[a[1]] % vWidth
      y == m.v[a[2]] % vHeight
  IN drawLoop(m, x, y, a[3], 0)

RECURSIVE regDumpFrom(_, _, _)
regDumpFrom(m, stopIdx, k) ==
  IF k > stopIdx THEN m
  ELSE regDumpFrom([m EXCEPT !.memory = StoreMem(@, m.i + k, m.v[k])], stopIdx, k + 1)

\* regDump() with the loop condition `i < stopIdx`.
regDump_exclusive(m, stopIdx) == regDumpFrom(m, stopIdx - 1, 0)

regDump(m, stopIdx) == regDumpFrom(m, stopIdx, 0)

RECURSIVE regLoadFrom(_, _, _)
regLoadFrom(m, stopIdx, k) ==
  IF k > stopIdx THEN m
  ELSE regLoadFrom([m EXCEPT !.v = Store8(@, k, Load(m.memory, m.i + k))], stopIdx, k + 1)

regLoad(m, stopIdx) == regLoadFrom(m, stopIdx, 0)

\* setBCD() writing the digits in the opposite order.
setBCD_reversed(m, vIdx) ==
  LET num == m.v[vIdx]
      ones == num % 10
      tens == (num - ones) % 100
      hundreds == (num - (tens + ones)) % 1000
      mem1 == StoreMem(m.memory, m.i, ones)
      mem2 == StoreMem(mem1, m.i + 1, tens \div 10)
  IN [m EXCEPT !.memory = StoreMem(mem2, m.i + 2, hundreds \div 100)]

setBCD(m, vIdx) ==
  LET num == m.v[vIdx]
      ones == num % 10
      tens == (num - ones) % 100
      hundreds == (num - (tens + ones)) % 1000
      mem1 == StoreMem(m.memory, m.i, hundreds \div 100)
      mem2 == StoreMem(mem1, m.i + 1, tens \div 10)
  IN [m EXCEPT !.memory = StoreMem(mem2, m.i + 2, ones)]

\* miscOps() whose Fx29 uses a glyph stride of 4 bytes.
miscOps_stride4(m, args) ==
  LET a == splitArgsXNN(args)
      idxX == a[1]
      n == a[2]
  IN CASE n = 7 -> [m EXCEPT !.v = Store8(@, idxX, m.delayTimer)]
       [] n = 10 -> [m EXCEPT !.awaitingKey = TRUE, !.keypadRegister = idxX]
       [] n = 21 -> [m EXCEPT !.delayTimer = m.v[idxX]]
       [] n = 24 ->
            LET m1 == [m EXCEPT !.soundTimer = m.v[idxX]] IN
            IF ~m1.isBuzzing /\ m1.soundTimer > 0 THEN startBuzzer(m1) ELSE m1
       [] n = 30 -> [m EXCEPT !.i = @ + m.v[idxX]]
       [] n = 41 -> [m EXCEPT !.i = m.v[idxX] * 4]
       [] n = 51 -> setBCD(m, idxX)
       [] n = 85 -> regDump(m, idxX)
       [] n = 101 -> regLoad(m, idxX)
       [] OTHER -> m

miscOps(m, args) ==
  LET a == splitArgsXNN(args)
      idxX == a[1]
      n == a[2]
  IN CASE n = 7 -> [m EXCEPT !.v = Store8(@, idxX, m.delayTimer)]
       [] n = 10 -> [m EXCEPT !.awaitingKey = TRUE, !.keypadRegister = idxX]
       [] n = 21 -> [m EXCEPT !.delayTimer = m.v[idxX]]
       [] n = 24 ->
            LET m1 == [m EXCEPT !.soundTimer = m.v[idxX]] IN
            IF ~m1.isBuzzing /\ m1.soundTimer > 0 THEN startBuzzer(m1) ELSE m1
       [] n = 30 -> [m EXCEPT !.i = @ + m.v[idxX]]
       [] n = 41 -> [m EXCEPT !.i = m.v[idxX] * FONT_CHAR_WIDTH]
       [] n = 51 -> setBCD(m, idxX)
       [] n = 85 -> regDump(m, idxX)
       [] n = 101 -> regLoad(m, idxX)
       [] OTHER -> m

inputBranching(m, args) ==
  LET a == splitArgsXNN(args)
      expectedKey == m.v[a[1]]
  IN CASE a[2] = 158 -> IF expectedKey \in m.pressedKeys THEN skip(m) ELSE m
       [] a[2] = 161 -> IF expectedKey \notin m.pressedKeys THEN skip(m) ELSE m
       [] OTHER -> m

\* The switch of step() on the fetched opcode; m has pc already advanced.
\* step()'s switch with 0NNN run as a jump to the machine routine at NNN.
execute_sysJumps(m, opcode, rand) ==
  LET category == opcode \div 4096
      args == opcode % 4096
  IN IF category = 0 /\ args \notin {224, 238}
     THEN [m EXCEPT !.pc = args]
     ELSE CASE category = 0 ->
                 (CASE args = 224 -> displayClear(m)
                    [] OTHER -> returnFromSubroutine(m))
            [] category = 1 -> [m EXCEPT !.pc = args]
            [] category = 2 -> callSubroutine(m, args)
            [] category = 3 -> skipIfVXeqNN(m, args)
            [] category = 4 -> skipIfVXneqNN(m, args)
            [] category = 5 -> skipIfVXeqVY(m, args)
            [] category = 6 -> setRegister(m, args)
            [] category = 7 -> addToRegister(m, args)
            [] category = 8 -> bitAndMathOps(m, args)
            [] category = 9 -> skipIfVXneqVY(m, args)
            [] category = 10 -> [m EXCEPT !.i = args]
            [] category = 11 -> [m EXCEPT !.pc = m.v[0] + args]
            [] category = 12 -> randByte(m, args, rand)
            [] category = 13 -> drawSprite(m, args)
            [] category = 14 -> inputBranching(m, args)
            [] category = 15 -> miscOps(m, args)
            [] OTHER -> m

execute(m, opcode, rand) ==
  LET category == opcode \div 4096
      args == opcode % 4096
  IN CASE category = 0 ->
            (CASE args = 224 -> displayClear(m)
               [] args = 238 -> returnFromSubroutine(m)
               [] OTHER -> m)
       [] category = 1 -> [m EXCEPT !.pc = args]
       [] category = 2 -> callSubroutine(m, args)
       [] category = 3 -> skipIfVXeqNN(m, args)
       [] category = 4 -> skipIfVXneqNN(m, args)
       [] category = 5 -> skipIfVXeqVY(m, args)
       [] category = 6 -> setRegister(m, args)
       [] category = 7 -> addToRegister(m, args)
       [] category = 8 -> bitAndMathOps(m, args)
       [] category = 9 -> skipIfVXneqVY(m, args)
       [] category = 10 -> [m EXCEPT !.i = args]
       [] category = 11 -> [m EXCEPT !.pc = m.v[0] + args]
       [] category = 12 -> randByte(m, args, rand)
       [] category = 13 -> drawSprite(m, args)
       [] category = 14 -> inputBranching(m, args)
       [] category = 15 -> miscOps(m, args)
       [] OTHER -> m

\* step() without the awaitingKey early return.
step_ignoresLatch(m, rand) ==
  LET f == readWord(m) IN execute(f.m, f.word, rand)

step(m, rand) ==
  IF m.awaitingKey THEN m
  ELSE LET f == readWord(m) IN execute(f.m, f.word, rand)

\* ------------------------------------------------------------------------
\* The earlier Chip8 of src/lib/emulator.ts: reset and loadROM only
\* ------------------------------------------------------------------------
liteReset(m) ==
  displayClear([m EXCEPT !.delayTimer = 0, !.soundTimer = 0,
                         !.v = [r \in 0..15 |-> 0],
                         !.stack = [s \in 0..(STACK_SIZE - 1) |-> 0],
                         !.sp = STACK_SIZE - 1,
                         !.memory = loadFontData(ZeroMemory),
                         !.pc = START_ADDR])

liteLoadROM(m, rom) ==
  LET readSize == IF Len(rom) <= MAX_ROM_SIZE THEN Len(rom) ELSE MAX_ROM_SIZE
  IN [m EXCEPT !.memory = StoreRange(@, START_ADDR, readSize, rom)]

\* ------------------------------------------------------------------------
\* Bounds and inputs
\* ------------------------------------------------------------------------
\* keys held down at the same time
MaxPressed == 1
\* deepest chain of nested calls a ROM makes
MaxCalls == 17
\* bytes by which the longest ROM exceeds MAX_ROM_SIZE
MaxExcess == 2
\* At most this many page loadROM() calls are awaiting their bytes at once.
MaxPending == 2
\* At most this many step() intervals are set.
MaxIntervals == 3
\* At most this many interval callbacks run between two resets or loads.
MaxFired == 3

\* A program as ROM bytes: each 16-bit word big-endian.
Prog(words) ==
  [k \in 1..(2 * Len(words)) |->
     IF k % 2 = 1 THEN words[(k + 1) \div 2] \div 256 ELSE words[k \div 2] % 256]

\* Key-wait programs, one per register R: a call, both timers and the tone
\* started, a glyph drawn, then FR0A, then ANNN and a jump to itself.
KeyRom(R) ==
  Prog(<< 8706,              \* 0x200: 2202  call 0x202
          25090,             \* 0x202: 6202  V2 = 2
          61973,             \* 0x204: F215  delay = V2
          61976,             \* 0x206: F218  sound = V2
          53797,             \* 0x208: D225  draw 5 rows at (V2, V2)
          61450 + 256 * R,   \* 0x20A: FR0A  wait for a key into VR
          41251,             \* 0x20C: A123  I = 0x123
          4622 >>)           \* 0x20E: 120E  jump 0x20E
KeyFam == [k \in 1..16 |-> KeyRom(k - 1)]

\* ALU programs: VX and VY each get a random byte minus one (so that both
\* 0 and 255 occur), then 8xyz runs, then a jump to itself.
AluOps == << 4, 5, 6, 7, 14 >>
AluRegs == << << 0, 1 >>, << 2, 2 >>, << 14, 15 >> >>
AluRom(z, x, y) ==
  Prog(<< 49407 + 256 * x,                 \* 0x200: CxFF  VX = random
          28927 + 256 * x,                 \* 0x202: 7xFF  VX += 255
          49407 + 256 * y,                 \* 0x204: CyFF  VY = random
          28927 + 256 * y,                 \* 0x206: 7yFF  VY += 255
          32768 + 256 * x + 16 * y + z,    \* 0x208: 8xyz
          4618 >>)                         \* 0x20A: 120A  jump 0x20A
AluFam ==
  [k \in 1..(Len(AluOps) * Len(AluRegs)) |->
     LET r == AluRegs[((k - 1) % Len(AluRegs)) + 1]
         z == AluOps[((k - 1) \div Len(AluRegs)) + 1]
     IN AluRom(z, r[1], r[2])]

\* Call chains: block j < n at 0x200 + 16 j holds a call to block j + 1
\* followed by a return (block 0: by a jump to itself); block n is a return.
CallRom(n) ==
  [k \in 1..(16 * n + 2) |->
     LET a == k - 1
         j == a \div 16
         o == a % 16
         target == START_ADDR + 16 * (j + 1)
     IN IF j = n THEN (IF o = 1 THEN 238 ELSE 0)
        ELSE CASE o = 0 -> (8192 + target) \div 256
               [] o = 1 -> (8192 + target) % 256
               [] o = 2 -> IF j = 0 THEN 18 ELSE 0
               [] o = 3 -> IF j = 0 THEN 2 ELSE 238
               [] OTHER -> 0]
\* The last one is CallRom(0): a return with no call outstanding.
CallFam == [k \in 1..(MaxCalls + 1) |-> CallRom(IF k > MaxCalls THEN 0 ELSE k)]

\* Data ROMs: two jumps, then a byte pattern without zeros.
DataLens == << 0, 1, 2, 7, MAX_ROM_SIZE - 1, MAX_ROM_SIZE, MAX_ROM_SIZE + 1,
               MAX_ROM_SIZE + MaxExcess >>
DataSeeds == << 1, 3 >>
DataRom(len, seed) ==
  [k \in 1..len |->
     IF k <= 4 THEN (IF k % 2 = 1 THEN 18 ELSE 2)
     ELSE 1 + ((k * seed) % 251)]
DataFam ==
  [k \in 1..(Len(DataLens) * Len(DataSeeds)) |->
     DataRom(DataLens[((k - 1) % Len(DataLens)) + 1],
             DataSeeds[((k - 1) \div Len(DataLens)) + 1])]

\* BCD programs: VX gets a random byte minus one, I an address, then Fx33.
BcdRegs == << 0, 7, 15 >>
BcdAddrs == << 768, 4093, 0 >>
BcdRom(x, addr) ==
  Prog(<< 49407 + 256 * x,       \* 0x200: CxFF  VX = random
          28927 + 256 * x,       \* 0x202: 7xFF  VX += 255
          40960 + addr,          \* 0x204: ANNN  I = addr
          61491 + 256 * x,       \* 0x206: Fx33  BCD of VX at I
          4616 >>)               \* 0x208: 1208  jump 0x208
BcdFam ==
  [k \in 1..(Len(BcdRegs) * Len(BcdAddrs)) |->
     BcdRom(BcdRegs[((k - 1) % Len(BcdRegs)) + 1],
            BcdAddrs[((k - 1) \div Len(BcdRegs)) + 1])]

\* Glyph programs: VX gets a random digit, then Fx29.
FontRegs == << 0, 15 >>
FontRom(x) ==
  Prog(<< 49167 + 256 * x,       \* 0x200: Cx0F  VX = random & 0x0F
          61481 + 256 * x,       \* 0x202: Fx29  I = glyph of VX
          4612 >>)               \* 0x204: 1204  jump 0x204
FontFam == [k \in 1..Len(FontRegs) |-> FontRom(FontRegs[k])]

\* Register-set programs, one per register R: a neighbour register, the
\* delay timer and I made non-zero, then 6RFF, 6R00, 6R80, 6R01.
SetRom(R) ==
  Prog(<< 24579 + 256 * ((R + 1) % 16),   \* 0x200: 6s03  Vs = 3
          61461 + 256 * ((R + 1) % 16),   \* 0x202: Fs15  delay = Vs
          41251,                          \* 0x204: A123  I = 0x123
          24831 + 256 * R,                \* 0x206: 6RFF
          24576 + 256 * R,                \* 0x208: 6R00
          24704 + 256 * R,                \* 0x20A: 6R80
          24577 + 256 * R,                \* 0x20C: 6R01
          4622 >>)                        \* 0x20E: 120E  jump 0x20E
SetFam == [k \in 1..16 |-> SetRom(k - 1)]

\* Sprite programs: V0 and V1 set, then glyph 0 (I = 0) drawn twice.
DrawAt == << << 0, 0 >>, << 62, 0 >>, << 0, 30 >>, << 190, 95 >> >>
DrawRom(vx, vy) ==
  Prog(<< 24576 + vx,            \* 0x200: 60NN  V0 = vx
          24832 + vy,            \* 0x202: 61NN  V1 = vy
          53269,                 \* 0x204: D015  draw 5 rows at (V0, V1)
          53269,                 \* 0x206: D015  and again
          4616 >>)               \* 0x208: 1208  jump 0x208
DrawFam == [k \in 1..Len(DrawAt) |-> DrawRom(DrawAt[k][1], DrawAt[k][2])]

\* Flag programs: VF gets a random bit, then either VX and VY get a random
\* byte minus one and 8xyz runs, or (last program) glyph 0 is drawn at
\* (0, 0); then a jump to itself.
FlagRegs == << << 0, 1 >>, << 2, 2 >> >>
FlagRom(z, x, y) ==
  Prog(<< 52993,                           \* 0x200: CF01  VF = random bit
          49407 + 256 * x,                 \* 0x202: CxFF  VX = random
          28927 + 256 * x,                 \* 0x204: 7xFF  VX += 255
          49407 + 256 * y,                 \* 0x206: CyFF  VY = random
          28927 + 256 * y,                 \* 0x208: 7yFF  VY += 255
          32768 + 256 * x + 16 * y + z,    \* 0x20A: 8xyz
          4620 >>)                         \* 0x20C: 120C  jump 0x20C
FlagDrawRom ==
  Prog(<< 52993,                           \* 0x200: CF01  VF = random bit
          53269,                           \* 0x202: D015  draw 5 rows at (V0, V1)
          4612 >>)                         \* 0x204: 1204  jump 0x204
FlagFam ==
  [k \in 1..(Len(AluOps) * Len(FlagRegs) + 1) |->
     IF k > Len(AluOps) * Len(FlagRegs) THEN FlagDrawRom
     ELSE LET r == FlagRegs[((k - 1) % Len(FlagRegs)) + 1]
              z == AluOps[((k - 1) \div Len(FlagRegs)) + 1]
          IN FlagRom(z, r[1], r[2])]

\* Programs whose PC leaves the loaded image: a jump to 0xFFF; a BNNN past
\* the end of memory; a taken skip written to 0xFFC; a call written to
\* 0xFFE; and one opcode of each kind the dispatcher does not know.
EdgeFam ==
  << Prog(<< 8191 >>),              \* 0x200: 1FFF  jump 0xFFF
     Prog(<< 24831,                 \* 0x200: 60FF  V0 = 0xFF
             49151 >>),             \* 0x202: BFFF  jump V0 + 0xFFF
     Prog(<< 24624,                 \* 0x200: 6030  V0 = 0x30
             24880,                 \* 0x202: 6130  V1 = 0x30
             45052,                 \* 0x204: AFFC  I = 0xFFC
             61781,                 \* 0x206: F155  memory[0xFFC..0xFFD] = 30 30
             8188 >>),              \* 0x208: 1FFC  jump 0xFFC (3030: skip if V0 == 0x30)
     Prog(<< 24610,                 \* 0x200: 6022  V0 = 0x22
             24842,                 \* 0x202: 610A  V1 = 0x0A
             45054,                 \* 0x204: AFFE  I = 0xFFE
             61781,                 \* 0x206: F155  memory[0xFFE..0xFFF] = 22 0A
             8190,                  \* 0x208: 1FFE  jump 0xFFE (220A: call 0x20A)
             4618 >>),              \* 0x20A: 120A  jump 0x20A
     Prog(<< 24581,                 \* 0x200: 6005  V0 = 5
             61461,                 \* 0x202: F015  delay = V0
             291,                   \* 0x204: 0123  no such opcode
             32794,                 \* 0x206: 801A  no such 8 subcode
             57599,                 \* 0x208: E0FF  no such E subcode
             61695,                 \* 0x20A: F0FF  no such F subcode
             4620 >>) >>            \* 0x20C: 120C  jump 0x20C

\* Programs that use I at and past the end of memory: I = 0xFFF set by
\* ANNN, and I = 0xFFF + VX reached by Fx1E.
IndexFam ==
  << Prog(<< 24831,                 \* 0x200: 60FF  V0 = 0xFF
             25003,                 \* 0x202: 61AB  V1 = 0xAB
             45055,                 \* 0x204: AFFF  I = 0xFFF
             61491,                 \* 0x206: F033  BCD of V0 at I..I+2
             61781,                 \* 0x208: F155  dump V0..V1 at I..I+1
             61797,                 \* 0x20A: F165  load V0..V1 from I..I+1
             53269,                 \* 0x20C: D015  draw rows I..I+4
             4622 >>),              \* 0x20E: 120E  jump 0x20E
     Prog(<< 24831,                 \* 0x200: 60FF  V0 = 0xFF
             25003,                 \* 0x202: 61AB  V1 = 0xAB
             45055,                 \* 0x204: AFFF  I = 0xFFF
             61470,                 \* 0x206: F01E  I += V0
             61491,                 \* 0x208: F033  BCD of V0 at I..I+2
             61781,                 \* 0x20A: F155  dump V0..V1 at I..I+1
             61797,                 \* 0x20C: F165  load V0..V1 from I..I+1
             53269,                 \* 0x20E: D015  draw rows I..I+4
             4624 >>) >>            \* 0x210: 1210  jump 0x210

\* Tone programs: Fx18 with VX > 0 twice in a row, then with VX == 0, then
\* with VX > 0 again, then a jump to itself.
ToneFam ==
  << Prog(<< 24579,                 \* 0x200: 6003  V0 = 3
             61464,                 \* 0x202: F018  sound = V0
             61464,                 \* 0x204: F018  sound = V0
             24576,                 \* 0x206: 6000  V0 = 0
             61464,                 \* 0x208: F018  sound = V0
             24578,                 \* 0x20A: 6002  V0 = 2
             61464,                 \* 0x20C: F018  sound = V0
             4622 >>) >>            \* 0x20E: 120E  jump 0x20E

\* Random programs: V0 = random & 0xFF, V1 = random & 0x0F, then a jump to
\* itself.
RandFam ==
  << Prog(<< 49407,                 \* 0x200: C0FF  V0 = random & 0xFF
             49423,                 \* 0x202: C10F  V1 = random & 0x0F
             4612 >>) >>            \* 0x204: 1204  jump 0x204

\* The ROM files the page's file picker offers.
PageFam ==
  << Prog(<< 24577,                 \* 0x200: 6001  V0 = 1
             4610 >>),              \* 0x202: 1202  jump 0x202
     Prog(<< 24834,                 \* 0x200: 6102  V1 = 2
             4610 >>) >>            \* 0x202: 1202  jump 0x202

\* Dump/load programs: registers set, V0..Vx dumped at I, V0, V2 and VE
\* overwritten, V0..Vx loaded back, then a jump to itself.
DumpRegs == << 0, 2, 15 >>
DumpAddrs == << 0, 4080 >>
DumpRom(x, addr) ==
  Prog(<< 49407,                 \* 0x200: C0FF  V0 = random
          25122,                 \* 0x202: 6222  V2 = 0x22
          28398,                 \* 0x204: 6EEE  VE = 0xEE
          28587,                 \* 0x206: 6FAB  VF = 0xAB
          40960 + addr,          \* 0x208: ANNN  I = addr
          61525 + 256 * x,       \* 0x20A: Fx55  dump V0..Vx
          24581,                 \* 0x20C: 6005  V0 = 5
          25095,                 \* 0x20E: 6207  V2 = 7
          28169,                 \* 0x210: 6E09  VE = 9
          61541 + 256 * x,       \* 0x212: Fx65  load V0..Vx
          4628 >>)               \* 0x214: 1214  jump 0x214
DumpFam ==
  [k \in 1..(Len(DumpRegs) * Len(DumpAddrs)) |->
     DumpRom(DumpRegs[((k - 1) % Len(DumpRegs)) + 1],
             DumpAddrs[((k - 1) \div Len(DumpRegs)) + 1])]

\* Add-immediate programs: VF = 0xAB, VX random, then 7xNN with NN = 0x01,
\* 0xFF, 0x80 and 0x00, then a jump to itself.
AddRegs == << 0, 14 >>
AddRom(x) ==
  Prog(<< 28587,                 \* 0x200: 6FAB  VF = 0xAB
          49407 + 256 * x,       \* 0x202: CxFF  VX = random
          28673 + 256 * x,       \* 0x204: 7x01  VX += 0x01
          28927 + 256 * x,       \* 0x206: 7xFF  VX += 0xFF
          28800 + 256 * x,       \* 0x208: 7x80  VX += 0x80
          28672 + 256 * x,       \* 0x20A: 7x00  VX += 0x00
          4620 >>)               \* 0x20C: 120C  jump 0x20C
AddFam == [k \in 1..Len(AddRegs) |-> AddRom(AddRegs[k])]

\* All ROMs the model loads, by id.
ROMS ==
  KeyFam \o AluFam \o CallFam \o DataFam \o BcdFam \o FontFam \o SetFam
    \o DrawFam \o FlagFam \o EdgeFam \o IndexFam \o ToneFam \o RandFam
    \o PageFam \o DumpFam \o AddFam
KeyIds == 1..Len(KeyFam)
AluIds == (Len(KeyFam) + 1)..(Len(KeyFam) + Len(AluFam))
CallIds == (Len(KeyFam) + Len(AluFam) + 1)..(Len(KeyFam) + Len(AluFam) + Len(CallFam))
DataIds == (Len(KeyFam) + Len(AluFam) + Len(CallFam) + 1)..
             (Len(KeyFam) + Len(AluFam) + Len(CallFam) + Len(DataFam))
BcdBase == Len(KeyFam) + Len(AluFam) + Len(CallFam) + Len(DataFam)
BcdIds == (BcdBase + 1)..(BcdBase + Len(BcdFam))
FontBase == BcdBase + Len(BcdFam)
FontIds == (FontBase + 1)..(FontBase + Len(FontFam))
SetBase == FontBase + Len(FontFam)
SetIds == (SetBase + 1)..(SetBase + Len(SetFam))
DrawBase == SetBase + Len(SetFam)
DrawIds == (DrawBase + 1)..(DrawBase + Len(DrawFam))
FlagBase == DrawBase + Len(DrawFam)
FlagIds == (FlagBase + 1)..(FlagBase + Len(FlagFam))
EdgeBase == FlagBase + Len(FlagFam)
EdgeIds == (EdgeBase + 1)..(EdgeBase + Len(EdgeFam))
IndexBase == EdgeBase + Len(EdgeFam)
IndexIds == (IndexBase + 1)..(IndexBase + Len(IndexFam))
ToneBase == IndexBase + Len(IndexFam)
ToneIds == (ToneBase + 1)..(ToneBase + Len(ToneFam))
RandBase == ToneBase + Len(ToneFam)
RandIds == (RandBase + 1)..(RandBase + Len(RandFam))
PageBase == RandBase + Len(RandFam)
PageIds == (PageBase + 1)..(PageBase + Len(PageFam))
DumpBase == PageBase + Len(PageFam)
DumpIds == (DumpBase + 1)..(DumpBase + Len(DumpFam))
AddBase == DumpBase + Len(DumpFam)
AddIds == (AddBase + 1)..(AddBase + Len(AddFam))

\* Physical codes delivered, as indices into KeyCodes.
FewCodes == {9, 17}                    \* KeyA (logical 7), Space (unmapped)
SomeCodes == {9, 14, 17}               \* logical 7, logical 0, and Space
NoKeys == {17}                         \* Space only

\* Values of Math.random() * 255 truncated that the model draws: one less
\* than each is 255, 0, 1, 5, 10, 127, 128, 250.
FewDraws == {0, 1, 2, 6, 11, 128, 129, 251}
\* Draws that Cx0F turns into every digit.
DigitDraws == 0..15

\* ------------------------------------------------------------------------
\* Initial state and actions
\* ------------------------------------------------------------------------
Init ==
  /\ pc = START_ADDR /\ i = 0
  /\ v = [r \in 0..15 |-> 0]
  /\ stack = [s \in 0..(STACK_SIZE - 1) |-> 0]
  /\ sp = STACK_SIZE - 1
  /\ delayTimer = 0 /\ soundTimer = 0
  /\ memory = loadFontData(ZeroMemory)
  /\ awaitingKey = FALSE /\ keypadRegister = Null /\ pressedKeys = {}
  /\ isBuzzing = FALSE /\ buzzer = Null /\ oscillators = 0
  /\ vPixels = {}
  /\ threw = FALSE
  /\ lastOp = [op |-> "new", arg |-> 0]
  /\ shadow = << >>
  /\ romFile = Null /\ pending = << >> /\ intervals = 0 /\ fired = 0

Reset ==
  /\ Becomes(reset(Machine))
  /\ lastOp' = [op |-> "reset", arg |-> 0]
  /\ shadow' = << >>
  /\ UNCHANGED page

LoadROM(id) ==
  /\ Becomes(loadROM(Machine, ROMS[id]))
  /\ lastOp' = [op |-> "loadROM", arg |-> id]
  /\ shadow' = << >>
  /\ UNCHANGED page

KeyDown(c) ==
  /\ inputMap(KeyCodes[c]) # NaN =>
       Cardinality(pressedKeys \cup {inputMap(KeyCodes[c])}) <= MaxPressed
  /\ Becomes(handleKeyDown(Machine, KeyCodes[c]))
  /\ lastOp' = [op |-> "keydown", arg |-> c]
  /\ UNCHANGED shadow
  /\ UNCHANGED page

KeyUp(c) ==
  /\ Becomes(handleKeyUp(Machine, KeyCodes[c]))
  /\ lastOp' = [op |-> "keyup", arg |-> c]
  /\ UNCHANGED shadow
  /\ UNCHANGED page

Tick ==
  /\ Becomes(decrementTimers(Machine))
  /\ lastOp' = [op |-> "tick", arg |-> 0]
  /\ UNCHANGED shadow
  /\ UNCHANGED page

\* The opcode the next step() executes, NaN if the latch makes it a no-op.
NextOpcode == IF awaitingKey THEN NaN ELSE readWord(Machine).word

Step(draws) ==
  /\ \E rand \in (IF NextOpcode # NaN /\ NextOpcode \div 4096 = 12
                  THEN draws \cap RandomDraws ELSE {0}) :
        Becomes(step(Machine, rand))
  /\ lastOp' = [op |-> "step", arg |-> NextOpcode]
  /\ shadow' =
       IF NextOpcode = NaN THEN shadow
       ELSE IF NextOpcode \div 4096 = 2
            THEN Append(shadow, readWord(Machine).m.pc)
       ELSE IF NextOpcode = 238 /\ shadow # << >>
            THEN SubSeq(shadow, 1, Len(shadow) - 1)
       ELSE shadow
  /\ fired' = IF intervals > 0 THEN fired + 1 ELSE fired
  /\ UNCHANGED << romFile, pending, intervals >>

LiteReset ==
  /\ Becomes(liteReset(Machine))
  /\ lastOp' = [op |-> "reset", arg |-> 0]
  /\ UNCHANGED shadow
  /\ UNCHANGED page

LiteLoadROM(id) ==
  /\ Becomes(liteLoadROM(Machine, ROMS[id]))
  /\ lastOp' = [op |-> "loadROM", arg |-> id]
  /\ UNCHANGED shadow
  /\ UNCHANGED page

\* ------------------------------------------------------------------------
\* The page driver: file picker, Reset button, runEmu's intervals
\* ------------------------------------------------------------------------
\* handleROMFile() with a file chosen: romFile is set and loadROM() runs up
\* to its await of the file's bytes.
HandleROMFile(id) ==
  /\ Len(pending) < MaxPending
  /\ romFile' = id
  /\ pending' = Append(pending, [rom |-> id, from |-> "picker"])
  /\ lastOp' = [op |-> "select", arg |-> id]
  /\ UNCHANGED << mvars, threw, shadow, intervals, fired >>

\* handleROMFile() with the selection emptied: romFile = null, return.
HandleNoFile ==
  /\ romFile' = Null
  /\ lastOp' = [op |-> "select", arg |-> 0]
  /\ UNCHANGED << mvars, threw, shadow, pending, intervals, fired >>

\* The Reset button's click handler up to the await inside loadROM():
\* chip8.reset(), then romFile.arrayBuffer() is requested; with no file
\* the TypeError is caught inside loadROM() and nothing is awaited.
ResetClick ==
  /\ romFile # Null => Len(pending) < MaxPending
  /\ Becomes(reset(Machine))
  /\ lastOp' = [op |-> "reset", arg |-> 0]
  /\ shadow' = << >>
  /\ pending' = IF romFile = Null THEN pending
                ELSE Append(pending, [rom |-> romFile, from |-> "button"])
  /\ fired' = 0
  /\ UNCHANGED << romFile, intervals >>

\* loadROM() resumed with the bytes of its file: chip8.loadROM(romData),
\* then runEmu() sets one more interval.
LoadROMResumes(k) ==
  /\ k \in 1..Len(pending)
  /\ intervals < MaxIntervals
  /\ Becomes(loadROM(Machine, ROMS[pending[k].rom]))
  /\ lastOp' = [op |-> "loadROM", arg |-> pending[k].rom]
  /\ shadow' = << >>
  /\ pending' = SubSeq(pending, 1, k - 1) \o SubSeq(pending, k + 1, Len(pending))
  /\ intervals' = intervals + 1
  /\ fired' = 0
  /\ UNCHANGED romFile

\* loadROM() resumed with the read rejected: logged, no runEmu().
LoadROMFails(k) ==
  /\ k \in 1..Len(pending)
  /\ pending' = SubSeq(pending, 1, k - 1) \o SubSeq(pending, k + 1, Len(pending))
  /\ lastOp' = [op |-> "loadFailed", arg |-> pending[k].rom]
  /\ UNCHANGED << mvars, threw, shadow, romFile, intervals, fired >>

\* One callback of one of runEmu's intervals: chip8.step().
RunEmuInterval(draws) ==
  /\ intervals > 0
  /\ fired < MaxFired
  /\ Step(draws)

\* ------------------------------------------------------------------------
\* Specifications: the same actions, over different ROMs and key codes, over different ROMs and key codes
\* ------------------------------------------------------------------------
NextFor(ids, codes, draws) ==
  \/ Reset
  \/ \E id \in ids : LoadROM(id)
  \/ \E c \in codes : KeyDown(c)
  \/ \E c \in codes : KeyUp(c)
  \/ Tick
  \/ Step(draws)

NextKey == NextFor(KeyIds, FewCodes, FewDraws)
NextAlu == NextFor(AluIds, NoKeys, FewDraws)
NextCall == NextFor(CallIds, NoKeys, FewDraws)
NextData ==
  \/ Reset
  \/ \E id \in DataIds : LoadROM(id)
  \/ \E c \in SomeCodes : KeyDown(c)
  \/ \E c \in SomeCodes : KeyUp(c)
  \/ Tick
NextBcd == NextFor(BcdIds, NoKeys, FewDraws)
NextFont == NextFor(FontIds, NoKeys, DigitDraws)
NextSet == NextFor(SetIds, NoKeys, FewDraws)
NextDraw == NextFor(DrawIds, NoKeys, FewDraws)
NextFlag == NextFor(FlagIds, NoKeys, FewDraws)
NextEdge == NextFor(EdgeIds, NoKeys, FewDraws)
NextIndex == NextFor(IndexIds, NoKeys, FewDraws)
NextTone == NextFor(ToneIds, NoKeys, FewDraws)
NextRand == NextFor(RandIds, NoKeys, FewDraws)
NextDump == NextFor(DumpIds, NoKeys, FewDraws)
NextAdd == NextFor(AddIds, NoKeys, FewDraws)
NextLite == LiteReset \/ \E id \in DataIds : LiteLoadROM(id)
NextPage ==
  \/ \E id \in PageIds : HandleROMFile(id)
  \/ HandleNoFile
  \/ ResetClick
  \/ \E k \in 1..MaxPending : LoadROMResumes(k)
  \/ \E k \in 1..MaxPending : LoadROMFails(k)
  \/ RunEmuInterval(FewDraws)
  \/ Tick

SpecKey == Init /\ [][NextKey]_vars
SpecAlu == Init /\ [][NextAlu]_vars
SpecCall == Init /\ [][NextCall]_vars
SpecData == Init /\ [][NextData]_vars
SpecLite == Init /\ [][NextLite]_vars
SpecBcd == Init /\ [][NextBcd]_vars
SpecFont == Init /\ [][NextFont]_vars
SpecSet == Init /\ [][NextSet]_vars
SpecDraw == Init /\ [][NextDraw]_vars
SpecFlag == Init /\ [][NextFlag]_vars
SpecEdge == Init /\ [][NextEdge]_vars
SpecIndex == Init /\ [][NextIndex]_vars
SpecTone == Init /\ [][NextTone]_vars
SpecRand == Init /\ [][NextRand]_vars
SpecPage == Init /\ [][NextPage]_vars
SpecDump == Init /\ [][NextDump]_vars
SpecAdd == Init /\ [][NextAdd]_vars

\* ------------------------------------------------------------------------
\* Properties
\* ------------------------------------------------------------------------
\* The step just taken was a step() that executed an opcode of this category.
Executed(category) ==
  /\ lastOp'.op = "step"
  /\ lastOp'.arg # NaN
  /\ lastOp'.arg \div 4096 = category

\* C1: with the latch armed on any register R in 0..15, handleKeyDown for a
\* physical code mapped to logical key K leaves V[R] = K and the latch
\* disarmed, so the next step() executes an instruction.
C1_KeyDownResolvesLatch ==
  [][ ( /\ awaitingKey
        /\ keypadRegister \in 0..15
        /\ lastOp'.op = "keydown"
        /\ inputMap(KeyCodes[lastOp'.arg]) # NaN )
      => ( /\ v'[keypadRegister] = inputMap(KeyCodes[lastOp'.arg])
           /\ ~awaitingKey'
           /\ keypadRegister' = Null
           /\ NextOpcode' # NaN ) ]_vars

\* C2: while the latch is armed a step() changes nothing of the machine
\* (PC, V, I, stack, stack pointer, memory, timers, pressed keys, display),
\* and step(), timer ticks and key-ups leave the latch armed on its register.
C2_ArmedStepIsNoOp ==
  [][ awaitingKey =>
        /\ (lastOp'.op = "step" => (UNCHANGED mvars /\ ~threw'))
        /\ (lastOp'.op \in {"step", "tick", "keyup"} =>
              (awaitingKey' /\ keypadRegister' = keypadRegister)) ]_vars

\* A step() was made with the latch armed while a call is outstanding, the
\* tone is on, a key is held and pixels are lit.
C2_Witness ==
  /\ awaitingKey
  /\ lastOp = [op |-> "step", arg |-> NaN]
  /\ soundTimer > 0 /\ isBuzzing
  /\ sp < STACK_SIZE - 1
  /\ pressedKeys # {}
  /\ vPixels # {}

\* C3: 8xy4 with x # 0xF leaves VX = (VX + VY) mod 256, and VF = 1 whenever
\* VX + VY > 255.
C3_AddWithCarry ==
  [][ ( /\ Executed(8)
        /\ splitArgsXYZ(lastOp'.arg % 4096)[3] = 4
        /\ splitArgsXYZ(lastOp'.arg % 4096)[1] # 15 )
      => LET x == splitArgsXYZ(lastOp'.arg % 4096)[1]
             y == splitArgsXYZ(lastOp'.arg % 4096)[2]
         IN /\ v'[x] = (v[x] + v[y]) % 256
            /\ (v[x] + v[y] > 255 => v'[15] = 1) ]_vars

\* C4: 8xy5 with x # 0xF leaves VX = (VX - VY) mod 256, with VF = 0 when
\* VX < VY and VF = 1 when VX >= VY.
C4_SubWithBorrow ==
  [][ ( /\ Executed(8)
        /\ splitArgsXYZ(lastOp'.arg % 4096)[3] = 5
        /\ splitArgsXYZ(lastOp'.arg % 4096)[1] # 15 )
      => LET x == splitArgsXYZ(lastOp'.arg % 4096)[1]
             y == splitArgsXYZ(lastOp'.arg % 4096)[2]
         IN /\ v'[x] = (v[x] - v[y]) % 256
            /\ v'[15] = (IF v[x] < v[y] THEN 0 ELSE 1) ]_vars

\* C5: a call executed while sixteen calls are outstanding raises an error
\* and leaves the stack pointer and the stack alone.
C5_SeventeenthCallRaises ==
  [][ (Executed(2) /\ Len(shadow) = STACK_SIZE)
      => (threw' /\ sp' = sp /\ stack' = stack) ]_vars

\* C6: with between 1 and 16 calls outstanding, a return sets PC to the
\* address that the latest outstanding call left behind (PC as it was when
\* that call executed) and puts the stack pointer back where it was before
\* that call, one slot per outstanding call below the top.
C6_CallReturnLIFO ==
  [][ ( /\ lastOp'.op = "step"
        /\ lastOp'.arg = 238
        /\ Len(shadow) \in 1..STACK_SIZE )
      => ( /\ pc' = shadow[Len(shadow)]
           /\ sp' = (STACK_SIZE - 1) - Len(shadow') ) ]_vars

\* Sixteen nested calls have all returned: the last return came back to the
\* address after the first call, the stack pointer is at the top again and
\* the lowest stack slot was used.
C6_Witness ==
  /\ lastOp = [op |-> "step", arg |-> 238]
  /\ shadow = << >>
  /\ pc = START_ADDR + INSTRUCTION_SIZE
  /\ sp = STACK_SIZE - 1
  /\ stack[0] # 0

\* C7: a return executed with the stack pointer at the top (no call
\* outstanding) raises an error and leaves PC a valid address.
C7_ReturnWithoutCallRaises ==
  [][ ( /\ lastOp'.op = "step"
        /\ lastOp'.arg = 238
        /\ sp = STACK_SIZE - 1 )
      => (threw' /\ pc' \in 0..(MEM_SIZE - 1)) ]_vars

\* The bytes of the ROM of this id that fit: the first min(len, 3232).
Fits(id) == IF Len(ROMS[id]) <= MAX_ROM_SIZE THEN Len(ROMS[id]) ELSE MAX_ROM_SIZE

\* C8: after loadROM(rom) the machine depends on rom only: font at [0, 80),
\* the ROM's first min(len, 3232) bytes at 0x200, zero elsewhere, PC = 0x200
\* and registers, I, timers and stack as after construction.
C8_LoadROMResetsFirst ==
  lastOp.op = "loadROM" =>
    /\ \A a \in 0..(MEM_SIZE - 1) :
         Load(memory, a) =
           IF a < Len(FONT_DATA) THEN FONT_DATA[a + 1]
           ELSE IF a >= START_ADDR /\ a < START_ADDR + Fits(lastOp.arg)
                THEN ROMS[lastOp.arg][a - START_ADDR + 1]
                ELSE 0
    /\ pc = START_ADDR /\ i = 0
    /\ v = [r \in 0..15 |-> 0]
    /\ delayTimer = 0 /\ soundTimer = 0
    /\ stack = [s \in 0..(STACK_SIZE - 1) |-> 0]
    /\ sp = STACK_SIZE - 1

\* C9: loadROM copies rom[k] to 0x200 + k for every k below min(len, 3232),
\* leaves every address from 0x200 + 3232 on and every address below 0x200
\* as reset left it, and does not throw.
C9_LoadROMTruncates ==
  lastOp.op = "loadROM" =>
    /\ \A k \in 0..(Fits(lastOp.arg) - 1) :
         Load(memory, START_ADDR + k) = ROMS[lastOp.arg][k + 1]
    /\ \A a \in (START_ADDR + Fits(lastOp.arg))..(MEM_SIZE - 1) : Load(memory, a) = 0
    /\ \A a \in 0..(START_ADDR - 1) :
         Load(memory, a) = IF a < Len(FONT_DATA) THEN FONT_DATA[a + 1] ELSE 0
    /\ DOMAIN memory \subseteq 0..(MEM_SIZE - 1)
    /\ ~threw

\* A ROM longer than 3232 bytes was loaded and its 3232nd byte is the last
\* one in memory.
C9_Witness ==
  /\ lastOp.op = "loadROM"
  /\ Len(ROMS[lastOp.arg]) > MAX_ROM_SIZE
  /\ Load(memory, START_ADDR + MAX_ROM_SIZE - 1) = ROMS[lastOp.arg][MAX_ROM_SIZE]
  /\ ROMS[lastOp.arg][MAX_ROM_SIZE] # 0
  /\ ROMS[lastOp.arg][MAX_ROM_SIZE + 1] # 0

\* C10: after reset() memory is the font followed by zeros, V0..VF, I, both
\* timers and the stack are zero, the stack pointer is 15, PC is 0x200, the
\* latch is disarmed, no key is pressed, the tone is off, the display blank.
C10_ResetRestores ==
  lastOp.op = "reset" =>
    /\ \A a \in 0..(MEM_SIZE - 1) :
         Load(memory, a) = IF a < Len(FONT_DATA) THEN FONT_DATA[a + 1] ELSE 0
    /\ \A r \in 0..15 : v[r] = 0
    /\ i = 0
    /\ delayTimer = 0 /\ soundTimer = 0
    /\ \A s \in 0..(STACK_SIZE - 1) : stack[s] = 0
    /\ sp = 15
    /\ pc = START_ADDR
    /\ ~awaitingKey /\ keypadRegister = Null
    /\ pressedKeys = {}
    /\ ~isBuzzing
    /\ vPixels = {}

\* reset() has just run.
C10_Witness ==
  /\ lastOp.op = "reset"
  /\ pc = START_ADDR
  /\ Load(memory, Len(FONT_DATA) - 1) = FONT_DATA[Len(FONT_DATA)]


\* C11: a timer tick taken with the tone on and the sound timer at 1 leaves
\* the sound timer at 0 and stops the tone in that same tick.
C11_StopToneOnZeroTransition ==
  [][ (lastOp'.op = "tick" /\ soundTimer = 1 /\ isBuzzing)
      => (soundTimer' = 0 /\ ~isBuzzing') ]_vars

\* C12: handleKeyUp for a mapped physical code leaves its logical key out of
\* the pressed set.
C12_KeyUpReleases ==
  [][ (lastOp'.op = "keyup" /\ inputMap(KeyCodes[lastOp'.arg]) # NaN)
      => inputMap(KeyCodes[lastOp'.arg]) \notin pressedKeys' ]_vars


\* C13: Fx33 with I + 2 < 4096 writes the hundreds, tens and ones digit of
\* VX at I, I + 1 and I + 2 and changes no other memory byte, no register
\* and not I.
C13_BCDDigits ==
  [][ ( /\ Executed(15)
        /\ splitArgsXNN(lastOp'.arg % 4096)[2] = 51
        /\ i + 2 < MEM_SIZE )
      => LET n == v[splitArgsXNN(lastOp'.arg % 4096)[1]] IN
         /\ Load(memory', i) = n \div 100
         /\ Load(memory', i + 1) = (n \div 10) % 10
         /\ Load(memory', i + 2) = n % 10
         /\ \A a \in (0..(MEM_SIZE - 1)) \ {i, i + 1, i + 2} :
              Load(memory', a) = Load(memory, a)
         /\ v' = v
         /\ i' = i ]_vars

\* Fx33 has just written 2, 5, 5 for VX = 255 at the last three bytes of
\* memory.
C13_Witness ==
  /\ lastOp.op = "step"
  /\ lastOp.arg # NaN
  /\ lastOp.arg \div 4096 = 15
  /\ lastOp.arg % 256 = 51
  /\ v[(lastOp.arg \div 256) % 16] = 255
  /\ i = MEM_SIZE - 3
  /\ Load(memory, i) = 2 /\ Load(memory, i + 1) = 5 /\ Load(memory, i + 2) = 5


\* C14: Fx29 with a digit d in 0..15 in VX sets I = 5 d, and the five bytes
\* at I..I+4 lie below address 80 and are glyph d of the font table (in
\* programs that write no memory).
C14_FontGlyphLookup ==
  [][ ( /\ Executed(15)
        /\ splitArgsXNN(lastOp'.arg % 4096)[2] = 41
        /\ v[splitArgsXNN(lastOp'.arg % 4096)[1]] \in 0..15 )
      => LET d == v[splitArgsXNN(lastOp'.arg % 4096)[1]] IN
         /\ i' = d * 5
         /\ \A k \in 0..4 :
              /\ i' + k < Len(FONT_DATA)
              /\ Load(memory', i' + k) = FONT_DATA[(5 * d) + k + 1] ]_vars

\* Fx29 has just resolved digit 0xF to address 75, the last glyph.
C14_Witness ==
  /\ lastOp.op = "step"
  /\ lastOp.arg # NaN
  /\ lastOp.arg \div 4096 = 15
  /\ lastOp.arg % 256 = 41
  /\ v[(lastOp.arg \div 256) % 16] = 15
  /\ i = 75
  /\ Load(memory, 79) = 128


\* C15: a timer tick takes each non-zero timer down by exactly 1, leaves a
\* zero timer at 0 and changes no register, PC, I, stack or memory; a step()
\* that does not execute Fx15, whether it runs an instruction or is held by
\* the latch, leaves the delay timer alone.  So k ticks after Fx15 set it to
\* n the delay timer is max(n - k, 0), however steps are interleaved.
C15_TimersCountByTicksOnly ==
  [][ /\ (lastOp'.op = "tick" =>
            /\ delayTimer' = (IF delayTimer > 0 THEN delayTimer - 1 ELSE 0)
            /\ soundTimer' = (IF soundTimer > 0 THEN soundTimer - 1 ELSE 0)
            /\ UNCHANGED << v, pc, i, stack, sp, memory >>)
      /\ ( ( /\ lastOp'.op = "step"
             /\ ~(Executed(15) /\ splitArgsXNN(lastOp'.arg % 4096)[2] = 21) )
           => delayTimer' = delayTimer ) ]_vars

\* A tick has just taken the delay timer from 2 to 1 while the machine was
\* held by the latch, several instructions after Fx15.
C15_Witness ==
  /\ lastOp.op = "tick"
  /\ awaitingKey
  /\ delayTimer = 1
  /\ pc > START_ADDR + 8


\* C16: a step() that fetches an opcode the dispatcher does not recognise
\* leaves PC advanced by 2 (0x200 if that reaches 4096), changes nothing
\* else and does not throw.
C16_UnrecognizedIsSkipped ==
  [][ ( /\ lastOp'.op = "step"
        /\ lastOp'.arg # NaN
        /\ LET category == lastOp'.arg \div 4096
               args == lastOp'.arg % 4096
           IN \/ category = 0 /\ args \notin {224, 238}
              \/ category = 8 /\ (args % 16) \notin ((0..7) \cup {14})
              \/ category = 14 /\ (args % 256) \notin {158, 161}
              \/ category = 15 /\ (args % 256) \notin {7, 10, 21, 24, 30, 41, 51, 85, 101} )
      => ( /\ pc' = (IF pc + INSTRUCTION_SIZE >= MEM_SIZE
                     THEN START_ADDR ELSE pc + INSTRUCTION_SIZE)
           /\ UNCHANGED << i, v, stack, sp, delayTimer, soundTimer, memory,
                           awaitingKey, keypadRegister, pressedKeys, isBuzzing,
                           buzzer, oscillators, vPixels >>
           /\ ~threw' ) ]_vars

C16_Witness ==
  /\ lastOp = [op |-> "step", arg |-> 61695]
  /\ pc = 524
  /\ v[0] = 5
  /\ delayTimer = 5
  /\ ~threw


\* C17: executing 6RNN leaves VR == NN, every other V register, I, both
\* timers and every memory byte unchanged, and PC advanced by 2 (0x200 if
\* that reaches 4096).
C17_SetRegisterRoundTrip ==
  [][ Executed(6) =>
        LET a == splitArgsXNN(lastOp'.arg % 4096) IN
        /\ v'[a[1]] = a[2]
        /\ \A r \in 0..15 : r # a[1] => v'[r] = v[r]
        /\ pc' = (IF pc + INSTRUCTION_SIZE >= MEM_SIZE
                  THEN START_ADDR ELSE pc + INSTRUCTION_SIZE)
        /\ UNCHANGED << i, delayTimer, soundTimer, memory >> ]_vars

C17_Witness ==
  /\ lastOp = [op |-> "step", arg |-> 24576 + 256 * 15 + 128]
  /\ v[15] = 128
  /\ v[0] = 3
  /\ i = 291
  /\ delayTimer = 2


\* C18: executing Dxyn toggles, for every set sprite bit (col, row), the
\* pixel ((VX + col) mod 64, (VY + row) mod 32) and no other, and never
\* indexes outside the 64x32 pixel array (the draw does not throw).
C18_DrawWrapsCoordinates ==
  [][ Executed(13) =>
        LET a == splitArgsXYZ(lastOp'.arg % 4096)
            wrapped ==
              { (((v[a[2]] + row) % vHeight) * vWidth) + ((v[a[1]] + col) % vWidth) :
                  << row, col >> \in
                    { rc \in (0..(a[3] - 1)) \X (0..7) :
                        (Load(memory, i + rc[1]) \div (2 ^ (7 - rc[2]))) % 2 = 1 } }
        IN /\ ~threw'
           /\ vPixels' = (vPixels \ wrapped) \cup (wrapped \ vPixels) ]_vars


\* C19: 8xy4, 8xy5, 8xy6, 8xy7, 8xyE and Dxyn (x, y # 0xF) overwrite VF: the
\* VF they leave is the one the same instruction leaves from the state
\* that differs only in VF, whichever of 0 and 1 VF held before.
C19_FlagOverwritten ==
  [][ ( /\ \/ Executed(8) /\ (lastOp'.arg % 16) \in {4, 5, 6, 7, 14}
           \/ Executed(13)
        /\ splitArgsXYZ(lastOp'.arg % 4096)[1] # 15
        /\ splitArgsXYZ(lastOp'.arg % 4096)[2] # 15 )
      => \A f \in 0..1 :
           execute([Machine EXCEPT !.v = Store8(@, 15, f)], lastOp'.arg, 0).v[15]
             = v'[15] ]_vars


\* C20: for x # 0xF, 8xyE leaves VF == VX_old div 128 and
\* VX == (2 * VX_old) mod 256; 8xy6 leaves VF == VX_old mod 2 and
\* VX == VX_old div 2.
C20_ShiftFlagIsShiftedOutBit ==
  [][ ( /\ Executed(8)
        /\ splitArgsXYZ(lastOp'.arg % 4096)[1] # 15 )
      => LET x == splitArgsXYZ(lastOp'.arg % 4096)[1]
             z == lastOp'.arg % 16
         IN /\ z = 14 => /\ v'[15] = v[x] \div 128
                         /\ v'[x] = (2 * v[x]) % 256
            /\ z = 6 => /\ v'[15] = v[x] % 2
                        /\ v'[x] = v[x] \div 2 ]_vars


\* C21: every step() that fetches reads both opcode bytes inside memory:
\* PC and PC + 1 lie in [0, 4096).
C21_FetchInsideMemory ==
  [][ (lastOp'.op = "step" /\ lastOp'.arg # NaN)
      => (pc >= 0 /\ pc + 1 < MEM_SIZE) ]_vars


\* C22: a step() that fetches decodes memory[PC] * 256 + memory[PC + 1] and
\* executes it with PC already advanced by 2, or set to 0x200 if the
\* advanced PC is >= 4096: a call pushes that PC and jumps to NNN, ANNN
\* sets I to NNN and 6XNN sets VX to NN with that PC left in place.
C22_FetchBigEndianThenAdvance ==
  [][ (lastOp'.op = "step" /\ lastOp'.arg # NaN) =>
        LET opcode == Load(memory, pc) * 256 + Load(memory, pc + 1)
            advanced == IF pc + INSTRUCTION_SIZE >= MEM_SIZE
                        THEN START_ADDR ELSE pc + INSTRUCTION_SIZE
        IN /\ lastOp'.arg = opcode
           /\ opcode \div 4096 = 2 =>
                /\ stack'[sp] = advanced
                /\ pc' = opcode % 4096
           /\ opcode \div 4096 = 10 =>
                /\ i' = opcode % 4096
                /\ pc' = advanced
           /\ opcode \div 4096 = 6 =>
                /\ v'[(opcode \div 256) % 16] = opcode % 256
                /\ pc' = advanced ]_vars

C22_Witness ==
  /\ lastOp = [op |-> "step", arg |-> 8714]
  /\ Load(memory, 4094) = 34
  /\ Load(memory, 4095) = 10
  /\ stack[STACK_SIZE - 1] = START_ADDR
  /\ sp = STACK_SIZE - 2
  /\ pc = 522


\* C23: a Dxyn, Fx33, Fx55 or Fx65 whose highest address I + k is >= 4096
\* aborts: the step() throws instead of completing.
C23_IndexOutOfMemoryAborts ==
  [][ ( /\ \/ Executed(15) /\ (lastOp'.arg % 256) \in {51, 85, 101}
           \/ Executed(13) /\ lastOp'.arg % 16 > 0
        /\ LET x == (lastOp'.arg \div 256) % 16
               last == CASE lastOp'.arg \div 4096 = 13 -> i + (lastOp'.arg % 16) - 1
                         [] lastOp'.arg % 256 = 51 -> i + 2
                         [] OTHER -> i + x
           IN last >= MEM_SIZE )
      => threw' ]_vars


\* C24: after every call a non-zero sound timer has the tone active, at
\* most one oscillator is sounding, and an oscillator is started only by
\* an Fx18 with VX > 0 executed while no tone is active.
C24_ToneFollowsSoundTimer ==
  [][ /\ soundTimer' > 0 => isBuzzing'
      /\ oscillators' <= 1
      /\ oscillators' > oscillators =>
           /\ Executed(15)
           /\ lastOp'.arg % 256 = 24
           /\ v[(lastOp'.arg \div 256) % 16] > 0
           /\ ~isBuzzing
           /\ oscillators = 0 ]_vars

C24_Witness ==
  /\ lastOp = [op |-> "step", arg |-> 61464]
  /\ pc = 518
  /\ soundTimer = 3
  /\ isBuzzing
  /\ oscillators = 1


\* C25: whenever the next instruction is CxFF, every byte b in 0..255 is
\* a possible draw: for each b the step can leave VX == b AND 0xFF == b,
\* 255 included.
C25_RandomByteCoversAllBytes ==
  (NextOpcode # NaN /\ NextOpcode \div 4096 = 12 /\ NextOpcode % 256 = UINT8_MAX)
  => \A b \in 0..UINT8_MAX :
       \E rand \in RandomDraws :
         step(Machine, rand).v[(NextOpcode \div 256) % 16] = b


\* C26: at most one step() interval is ever set by the page.
C26_OneStepDriver ==
  intervals <= 1

\* C27: no step() runs between the Reset button's chip8.reset() and the
\* chip8.loadROM() that completes that click's loadROM().
C27_ResetReloadAtomic ==
  [][ lastOp'.op = "step"
      => \A k \in 1..Len(pending) : pending[k].from # "button" ]_vars


\* C28: with I + x < 4096, Fx55 leaves memory[I + k] == Vk for k in 0..x and
\* every other byte, every register and I unchanged, and a load from that
\* memory into cleared registers gives V0..Vx back; Fx65 leaves
\* Vk == memory[I + k] for k in 0..x and V(x+1)..VF, memory and I unchanged.
C28_DumpLoadRoundTrip ==
  [][ ( /\ Executed(15)
        /\ (lastOp'.arg % 256) \in {85, 101}
        /\ i + ((lastOp'.arg \div 256) % 16) < MEM_SIZE ) =>
        LET x == (lastOp'.arg \div 256) % 16 IN
        /\ i' = i
        /\ lastOp'.arg % 256 = 85 =>
             /\ \A k \in 0..x : Load(memory', i + k) = v[k]
             /\ \A a \in (DOMAIN memory \cup DOMAIN memory') \ (i..(i + x)) :
                  Load(memory', a) = Load(memory, a)
             /\ v' = v
             /\ \A k \in 0..x :
                  regLoad([Machine' EXCEPT !.v = [r \in 0..15 |-> 0]], x).v[k] = v[k]
        /\ lastOp'.arg % 256 = 101 =>
             /\ \A k \in 0..x : v'[k] = Load(memory, i + k)
             /\ \A r \in (x + 1)..15 : v'[r] = v[r]
             /\ memory' = memory ]_vars

C28_Witness ==
  /\ lastOp = [op |-> "step", arg |-> 61541 + 256 * 2]
  /\ i = 4080
  /\ v[0] = 251
  /\ v[2] = 34
  /\ v[14] = 9
  /\ v[15] = 171
  /\ Load(memory, 4080) = 251
  /\ Load(memory, 4082) = 34


\* C29: for x in 0..14, 7xNN leaves VX == (VX_old + NN) mod 256 and every
\* other register, VF included, unchanged, also when the sum passes 255.
C29_AddImmediateWrapsNoFlag ==
  [][ (Executed(7) /\ (lastOp'.arg \div 256) % 16 # 15) =>
        LET x == (lastOp'.arg \div 256) % 16 IN
        /\ v'[x] = (v[x] + (lastOp'.arg % 256)) % 256
        /\ \A r \in 0..15 : r # x => v'[r] = v[r] ]_vars

C29_Witness ==
  /\ lastOp = [op |-> "step", arg |-> 28927 + 256 * 14]
  /\ v[14] = 251
  /\ v[15] = 171

====
